---------------------------- MODULE Spec2Model ----------------------------
(***************************************************************************)
(* Model of Atlas_demo.py, a single-script Streamlit application.          *)
(*                                                                         *)
(* Streamlit runs the whole script (main: the four views in order) once    *)
(* per user interaction; one such run is a "pass".  Every action below     *)
(* except EditForm is one interaction together with the pass (and, after   *)
(* st.rerun(), the restarted pass) it triggers.  The state is              *)
(*   - st.session_state: assignment_created, assignment_data,              *)
(*     student_dialogue_step, student_responses;                           *)
(*   - widget state: the form fields, the two student select boxes;        *)
(*   - process state: the state of Python's `random` generator and the     *)
(*     two st.cache_data memo tables;                                      *)
(*   - what the last pass produced (event, branch, indexed, report,        *)
(*     trends, views), recorded so that properties can speak about it.     *)
(*                                                                         *)
(* Texts on which the script does character work (split, strip, `in`,      *)
(* slicing) are sequences of one-character strings; all other texts are    *)
(* plain strings.  Fractions and scores are integers in hundredths.        *)
(***************************************************************************)
EXTENDS Integers, Sequences, FiniteSets, TLC

VARIABLES
    assignment_created,     \* st.session_state.assignment_created
    assignment_data,        \* st.session_state.assignment_data
    student_dialogue_step,  \* st.session_state.student_dialogue_step
    student_responses,      \* st.session_state.student_responses
    form,                   \* contents of the widgets of "assignment_form"
    selected_student,       \* select box of the student experience view
    report_student,         \* select box of the student report view
    has_tag,                \* whether the installed streamlit provides st.tag
    rng,                    \* state of the shared `random` generator
    class_cache,            \* memo table of generate_class_data
    individual_cache,       \* memo table of generate_individual_student_data
    event,                  \* the interaction that triggered the last pass
    step_before,            \* student_dialogue_step when the last pass began
    branch,                 \* the feedback branch the dialogue handler took
    indexed,                \* index used on dialogue_steps in the last pass
    report,                 \* what show_student_report produced in the last pass
    trends,                 \* what show_class_trends produced in the last pass
    views                   \* the views the last pass ran to completion

vars == <<assignment_created, assignment_data, student_dialogue_step,
          student_responses, form, selected_student, report_student, has_tag,
          rng, class_cache, individual_cache, event, step_before, branch, indexed,
          report, trends, views>>

sessionVars == <<assignment_created, assignment_data, student_dialogue_step,
                 student_responses>>

-----------------------------------------------------------------------------
(* Bounds of the model.                                                    *)

\* longest custom-objectives text that is enumerated
MaxCustomLen == 3
\* longest resource text that is enumerated
MaxResourceLen == 2
\* number of free-text answers of different length offered at step 3
MaxFreeTexts == 2
\* number of roster names the report select box is moved between
MaxReportStudents == 2
\* period of the modelled random generator
RngPeriod == 8
\* number of seeds the generator may start from
MaxSeeds == 2
\* number of students of the roster whose support level is varied
MaxVaried == 3

-----------------------------------------------------------------------------
(* Python helpers.                                                         *)

None == "None"

\* the empty dict {}
EmptyDict == [k \in {} |-> k]

\* Python's whitespace test used by str.strip()
IsSpace(c) == c \in {" ", "\n", "\t", "\r"}

RECURSIVE LStrip(_)
LStrip(s) ==
    IF s # <<>> /\ IsSpace(Head(s)) THEN LStrip(Tail(s)) ELSE s

RECURSIVE RStrip(_)
RStrip(s) ==
    IF s # <<>> /\ IsSpace(s[Len(s)]) THEN RStrip(SubSeq(s, 1, Len(s) - 1)) ELSE s

\* s.strip() without the left side (a plausible slip)
StripRightOnly(s) == RStrip(s)

\* s.strip()
Strip(s) == LStrip(RStrip(s))

\* index of the first occurrence of p in s from position i on, 0 when there is none
RECURSIVE Find(_, _, _)
Find(s, p, i) ==
    IF i + Len(p) - 1 > Len(s) THEN 0
    ELSE IF SubSeq(s, i, i + Len(p) - 1) = p THEN i
    ELSE Find(s, p, i + 1)

\* `p in s` taken as `s.startswith(p)`
ContainsAsPrefix(p, s) == Len(s) >= Len(p) /\ SubSeq(s, 1, Len(p)) = p

\* `p in s` for two texts
Contains(p, s) == Find(s, p, 1) # 0

\* s.split(sep): the segments between the occurrences of sep, left to right
RECURSIVE Split(_, _)
Split(s, sep) ==
    LET i == Find(s, sep, 1) IN
    IF i = 0 THEN <<s>>
    ELSE <<SubSeq(s, 1, i - 1)>> \o Split(SubSeq(s, i + Len(sep), Len(s)), sep)

\* s[:n]
Prefix(s, n) == SubSeq(s, 1, IF Len(s) < n THEN Len(s) ELSE n)

\* [f(x) for x in xs if p(x)] with f = strip and p = non-blank after strip
RECURSIVE StrippedNonBlank(_)
StrippedNonBlank(xs) ==
    IF xs = <<>> THEN <<>>
    ELSE (IF Strip(Head(xs)) # <<>> THEN <<Strip(Head(xs))>> ELSE <<>>)
         \o StrippedNonBlank(Tail(xs))

NewLine == <<"\n">>

\* Preset1 is the text "Analyze primary sources"
Preset1 ==
    <<"A","n","a","l","y","z","e"," ","p","r","i","m","a","r","y"," ","s","o","u","r","c","e","s">>
\* Preset2 is the text "Compare multiple perspectives"
Preset2 ==
    <<"C","o","m","p","a","r","e"," ","m","u","l","t","i","p","l","e"," ","p","e","r","s","p","e","c","t","i","v","e","s">>
\* Preset3 is the text "Evaluate evidence quality"
Preset3 ==
    <<"E","v","a","l","u","a","t","e"," ","e","v","i","d","e","n","c","e"," ","q","u","a","l","i","t","y">>
\* GuidanceMinimal is the text "Minimal - Hints and clarifying questions only"
GuidanceMinimal ==
    <<"M","i","n","i","m","a","l"," ","-"," ","H","i","n","t","s"," ","a","n","d"," ","c","l","a","r","i","f","y","i","n","g"," ","q","u","e","s","t","i","o","n","s"," ","o","n","l","y">>
\* GuidanceModerate is the text "Moderate - Guided discovery with scaffolding"
GuidanceModerate ==
    <<"M","o","d","e","r","a","t","e"," ","-"," ","G","u","i","d","e","d"," ","d","i","s","c","o","v","e","r","y"," ","w","i","t","h"," ","s","c","a","f","f","o","l","d","i","n","g">>
\* GuidanceExploratory is the text "Exploratory - Deep questioning and tangent support"
GuidanceExploratory ==
    <<"E","x","p","l","o","r","a","t","o","r","y"," ","-"," ","D","e","e","p"," ","q","u","e","s","t","i","o","n","i","n","g"," ","a","n","d"," ","t","a","n","g","e","n","t"," ","s","u","p","p","o","r","t">>
\* GuidanceSeparator is the text " - "
GuidanceSeparator ==
    <<" ","-"," ">>
\* IntroOption1 is the text "The photographs of bread lines"
IntroOption1 ==
    <<"T","h","e"," ","p","h","o","t","o","g","r","a","p","h","s"," ","o","f"," ","b","r","e","a","d"," ","l","i","n","e","s">>
\* IntroOption2 is the text "Economic data and graphs"
IntroOption2 ==
    <<"E","c","o","n","o","m","i","c"," ","d","a","t","a"," ","a","n","d"," ","g","r","a","p","h","s">>
\* IntroOption3 is the text "Personal stories from families"
IntroOption3 ==
    <<"P","e","r","s","o","n","a","l"," ","s","t","o","r","i","e","s"," ","f","r","o","m"," ","f","a","m","i","l","i","e","s">>
\* CheckOption1 is the text "The economy was built on gambling"
CheckOption1 ==
    <<"T","h","e"," ","e","c","o","n","o","m","y"," ","w","a","s"," ","b","u","i","l","t"," ","o","n"," ","g","a","m","b","l","i","n","g">>
\* CheckOption2 is the text "The economic system was fragile and interconnected"
CheckOption2 ==
    <<"T","h","e"," ","e","c","o","n","o","m","i","c"," ","s","y","s","t","e","m"," ","w","a","s"," ","f","r","a","g","i","l","e"," ","a","n","d"," ","i","n","t","e","r","c","o","n","n","e","c","t","e","d">>
\* CheckOption3 is the text "People were literally playing cards"
CheckOption3 ==
    <<"P","e","o","p","l","e"," ","w","e","r","e"," ","l","i","t","e","r","a","l","l","y"," ","p","l","a","y","i","n","g"," ","c","a","r","d","s">>
\* CheckOption4 is the text "Banks were like card games"
CheckOption4 ==
    <<"B","a","n","k","s"," ","w","e","r","e"," ","l","i","k","e"," ","c","a","r","d"," ","g","a","m","e","s">>
\* SuccessPhrase is the text "fragile and interconnected"
SuccessPhrase ==
    <<"f","r","a","g","i","l","e"," ","a","n","d"," ","i","n","t","e","r","c","o","n","n","e","c","t","e","d">>
-----------------------------------------------------------------------------
(* Assignment setup view: show_assignment_setup.                           *)

\* default=[...] of the preset multiselect
DefaultPresets == <<Preset1, Preset2>>

\* the value of every widget of the form before the user touches it
DefaultForm ==
    [title              |-> "",
     preset_objectives  |-> DefaultPresets,
     custom_objectives  |-> <<>>,
     required_resources |-> <<>>,
     optional_resources |-> <<>>,
     ai_name            |-> "Professor Explorer",
     guidance_level     |-> GuidanceModerate,
     delivery_formats   |-> <<"Written analysis", "Oral presentation">>]

\* what all_objectives.extend(...) appends for the custom-objectives text
CustomObjectives(text) ==
    IF Strip(text) # <<>> THEN StrippedNonBlank(Split(text, NewLine)) ELSE <<>>

\* the resource list without the emptiness test: "".split('\n') is ['']
ResourceListUnguarded(text) == Split(text, NewLine)

\* text.split('\n') if text else []
ResourceList(text) == IF text # <<>> THEN Split(text, NewLine) ELSE <<>>

\* guidance_level.split(' - ')[0]
GuidanceLabel(text) == Split(text, GuidanceSeparator)[1]

\* the dict stored in st.session_state.assignment_data on submission
BuildAssignment(f) ==
    [title              |-> f.title,
     objectives         |-> f.preset_objectives \o CustomObjectives(f.custom_objectives),
     required_resources |-> ResourceList(f.required_resources),
     optional_resources |-> ResourceList(f.optional_resources),
     ai_name            |-> f.ai_name,
     guidance_level     |-> GuidanceLabel(f.guidance_level),
     delivery_formats   |-> f.delivery_formats]

\* a submission that is refused when the title is empty
AcceptsNonEmptyTitle(f) == f.title # ""

\* `if submitted:` stores the record whatever the field values
Accepts(f) == TRUE

\* "A\n\nB\n"
ExampleCustomText == <<"A", "\n", "\n", "B", "\n">>

\* "x\ny"
ExampleResourceText == <<"x", "\n", "y">>

\* all texts over an alphabet of length at most n
Texts(alphabet, n) == UNION {[1..k -> alphabet] : k \in 0..n}

\* custom-objectives texts tried: short ones and "A\n\nB\n"
CustomTexts ==
    Texts({"A", " ", "\n"}, MaxCustomLen) \cup {ExampleCustomText}

\* resource texts tried: short ones and "x\ny"
ResourceTexts ==
    Texts({"x", "\n"}, MaxResourceLen) \cup {ExampleResourceText}

\* the other fields of the form, varied together
FormVariants ==
    {[title |-> "", preset_objectives |-> DefaultPresets, ai_name |-> "Professor Explorer",
      guidance_level |-> GuidanceModerate,
      delivery_formats |-> <<"Written analysis", "Oral presentation">>],
     [title |-> "The Great Depression", preset_objectives |-> <<Preset3, Preset1>>,
      ai_name |-> "", guidance_level |-> GuidanceMinimal,
      delivery_formats |-> <<>>],
     [title |-> "T", preset_objectives |-> <<>>, ai_name |-> "Professor Explorer",
      guidance_level |-> GuidanceExploratory,
      delivery_formats |-> <<"Creative project">>]}

MakeForm(v, custom, req, opt) ==
    [title              |-> v.title,
     preset_objectives  |-> v.preset_objectives,
     custom_objectives  |-> custom,
     required_resources |-> req,
     optional_resources |-> opt,
     ai_name            |-> v.ai_name,
     guidance_level     |-> v.guidance_level,
     delivery_formats   |-> v.delivery_formats]

\* every form content the form specification starts from: each custom text with
\* fixed resource texts, and each pair of resource texts with a fixed custom text
FormInputs ==
    {MakeForm(v, c, <<>>, ExampleResourceText) : v \in FormVariants, c \in CustomTexts}
    \cup {MakeForm(v, ExampleCustomText, r, o) :
             v \in FormVariants, r \in ResourceTexts, o \in ResourceTexts}

\* the form contents the user types in the main specification
SmallForms ==
    {DefaultForm,
     MakeForm(CHOOSE v \in FormVariants : v.title = "The Great Depression",
              ExampleCustomText, ExampleResourceText, <<>>)}

-----------------------------------------------------------------------------
(* Student experience view: show_student_experience.                       *)

\* options of the select box "Choose a student perspective:"
PerspectiveStudents == <<"Jayla Williams", "Jackson Miller", "Olivia Chen">>

\* the fixed catalog of dialogue steps (type and options; the prose is not modelled)
dialogue_steps ==
    <<[type |-> "ai_intro", options |-> <<IntroOption1, IntroOption2, IntroOption3>>],
      [type |-> "content_delivery", options |-> <<>>],
      [type |-> "comprehension_check",
       options |-> <<CheckOption1, CheckOption2, CheckOption3, CheckOption4>>],
      [type |-> "deeper_exploration", options |-> <<>>],
      [type |-> "reflection", options |-> <<>>]>>

\* Python's list[i] for an index that is in range (negative ones count from the end)
PyIndex(xs, i) == IF i >= 0 THEN xs[i + 1] ELSE xs[Len(xs) + i + 1]

\* elements of a sequence
Range(xs) == {xs[i] : i \in DOMAIN xs}

\* number of characters of the answer echoed at step 3
EchoLimit == 50

\* free-text answers tried at step 3: lengths 0, EchoLimit + 1, ...
FreeTexts ==
    {[j \in 1..((i - 1) * (EchoLimit + 1)) |-> "a"] : i \in 1..MaxFreeTexts}

\* `student_dialogue_step -= 1`, the sign slipped
PreviousStep(s) == s - 1

\* the step is left as it is
SameStep(s) == s

\* an advance that passes over the following step
SkipStep(s) == s + 2

\* `st.session_state.student_dialogue_step += 1`
NextStep(s) == s + 1

\* a reset that goes back to the first step but keeps the responses
ResetKeepingResponses(r) == r

\* `st.session_state.student_responses = {}`
ResetResponses(r) == EmptyDict

\* `st.session_state.student_dialogue_step = 0`
ResetStep == 0

\* responses[k] = v
Record(r, k, v) == [j \in DOMAIN r \cup {k} |-> IF j = k THEN v ELSE r[j]]

NoFeedback == [kind |-> "none", text |-> <<>>]

\* the indices the rendering of step c uses on dialogue_steps
IndexedAt(c) == IF c < Len(dialogue_steps) THEN <<c>> ELSE <<>>

\* what the view shows for step c when no button of it is clicked
ShownAt(c) ==
    IF c < Len(dialogue_steps) THEN NoFeedback
    ELSE [kind |-> "session_complete", text |-> <<>>]

\* type of the step the cursor is on, None past the catalog
StepType(c) ==
    IF c < Len(dialogue_steps) THEN PyIndex(dialogue_steps, c).type ELSE None

\* the comprehension branch with the test on the start of the answer
FeedbackByPrefix(answer) ==
    IF ContainsAsPrefix(SuccessPhrase, answer)
    THEN [kind |-> "success", text |-> <<>>]
    ELSE [kind |-> "hint", text |-> <<>>]

\* `if "fragile and interconnected" in answer:` st.success, else st.warning and a hint
ComprehensionFeedback(answer) ==
    IF Contains(SuccessPhrase, answer)
    THEN [kind |-> "success", text |-> <<>>]
    ELSE [kind |-> "hint", text |-> <<>>]

-----------------------------------------------------------------------------
(* Python's `random` module, shared by the whole process.  The generator   *)
(* is deterministic given its state; its state is one of RngPeriod values  *)
(* and the seed is unknown (one of MaxSeeds values).                       *)

\* state of the generator after one draw
RngNext(s) == (s + 1) % RngPeriod

\* state of the generator after k draws
RECURSIVE RngSkip(_, _)
RngSkip(s, k) == IF k = 0 THEN s ELSE RngSkip(RngNext(s), k - 1)

\* the fraction random.random() returns in state s, as a numerator over RngPeriod
RngValue(s) == s

\* a draw that is not scaled back into the range
UniformUnscaled(a, b, s) == a + (b - a) * RngValue(s)

\* random.uniform(a, b) = a + (b - a) * random(), in hundredths
Uniform(a, b, s) == a + ((b - a) * RngValue(s)) \div RngPeriod

\* [random.uniform(a, b) for _ in range(n)]
UniformList(a, b, n, s) == [i \in 1..n |-> Uniform(a, b, RngSkip(s, i - 1))]

\* random._randbelow(n)
RandBelow(n, s) == RngValue(s) % n

\* random.randint(a, b)
RandInt(a, b, s) == a + RandBelow(b - a + 1, s)

\* random.choice(xs)
Choice(xs, s) == xs[RandBelow(Len(xs), s) + 1]

\* random.sample(pool, k) where n elements of pool are still to be drawn from:
\* result[i] = pool[j]; pool[j] = pool[n - i - 1]
RECURSIVE Sample(_, _, _, _)
Sample(pool, n, k, s) ==
    IF k = 0 THEN <<>>
    ELSE LET j == RandBelow(n, s) + 1 IN
         <<pool[j]>> \o Sample([pool EXCEPT ![j] = pool[n]], n - 1, k - 1, RngNext(s))

-----------------------------------------------------------------------------
(* Data generation: generate_class_data, generate_individual_student_data. *)

students ==
    <<"Jayla Williams", "Jackson Miller", "Olivia Chen", "Marcus Johnson",
      "Sophia Rodriguez", "Ethan Kim", "Isabella Brown", "Noah Davis",
      "Emma Wilson", "Liam Garcia", "Ava Martinez", "Lucas Anderson">>

objectives ==
    <<"Analyze primary sources", "Identify multiple perspectives",
      "Evaluate evidence quality", "Synthesize information",
      "Draw supported conclusions">>

CuriosityPaths ==
    <<"Climate Change Connections", "Modern Parallels", "Economic Factors",
      "Cultural Impact", "Technology Influence", "Global Perspectives",
      "Environmental Effects", "Social Justice Angles">>

ExplorationTags ==
    <<"Economic parallels to 2008", "Environmental justice", "Global perspectives",
      "Technology impacts", "Social movements", "Cultural analysis">>

\* number of writing samples
WritingSamples == 6

\* f'Week {i+1}'
WeekLabel(i) == <<"Week", i + 1>>

\* number of draws a student record takes before its curiosity paths are counted
DrawsBeforePaths == Len(objectives) + WritingSamples

\* the dict student_data, given the two sample sizes k1 and k2 that were drawn;
\* the draws are taken in the order of the dict literal
StudentRecord(student, s, k1, k2) ==
    [val |->
       [student_name        |-> student,
        objectives_mastered |-> UniformList(60, 100, Len(objectives), s),
        writing_scores      |->
            UniformList(600, 1000, WritingSamples, RngSkip(s, Len(objectives))),
        curiosity_paths     |->
            Sample(CuriosityPaths, Len(CuriosityPaths), k1,
                   RngSkip(s, DrawsBeforePaths + 1)),
        ai_support_level    |-> Uniform(20, 80, RngSkip(s, DrawsBeforePaths + 1 + k1)),
        total_time_minutes  |-> RandInt(45, 120, RngSkip(s, DrawsBeforePaths + 2 + k1)),
        questions_asked     |-> RandInt(3, 15, RngSkip(s, DrawsBeforePaths + 3 + k1)),
        revisions_made      |-> RandInt(2, 8, RngSkip(s, DrawsBeforePaths + 4 + k1)),
        confusion_areas     |->
            Sample(objectives, Len(objectives), k2,
                   RngSkip(s, DrawsBeforePaths + 6 + k1))],
     rng |-> RngSkip(s, DrawsBeforePaths + 6 + k1 + k2)]

\* student_data once random.randint(1, 4) has given the number k1 of paths
StudentWithPaths(student, s, k1) ==
    StudentRecord(student, s, k1, RandInt(0, 2, RngSkip(s, DrawsBeforePaths + 5 + k1)))

\* one element of class_data, drawn from generator state s; rng is the state after
GenerateStudent(student, s) ==
    StudentWithPaths(student, s, RandInt(1, 4, RngSkip(s, DrawsBeforePaths)))

\* the loop `for student in students` of generate_class_data
RECURSIVE GenerateStudents(_, _, _)
GenerateStudents(names, class_data, s) ==
    IF names = <<>> THEN [val |-> class_data, rng |-> s]
    ELSE GenerateStudents(Tail(names),
                          Append(class_data, GenerateStudent(Head(names), s).val),
                          GenerateStudent(Head(names), s).rng)

\* `return class_data, objectives`
ClassResult(g) ==
    [val |-> [class_data |-> g.val, objectives |-> objectives], rng |-> g.rng]

\* body of generate_class_data
GenerateClassData(s) == ClassResult(GenerateStudents(students, <<>>, s))

\* the dict returned by generate_individual_student_data, given the number k of
\* exploration tags that was drawn
IndividualRecord(student_name, s, k) ==
    [val |->
       [name                |-> student_name,
        objectives_progress |-> UniformList(70, 100, Len(objectives), s),
        writing_timeline    |->
            [i \in 1..WritingSamples |->
                [week  |-> WeekLabel(i - 1),
                 score |-> Uniform(650, 950, RngSkip(s, Len(objectives) + i - 1))]],
        exploration_tags    |->
            Sample(ExplorationTags, Len(ExplorationTags), k,
                   RngSkip(s, DrawsBeforePaths + 1)),
        ai_breakdown        |->
            [student_original |-> Uniform(40, 70, RngSkip(s, DrawsBeforePaths + 1 + k)),
             ai_scaffolding   |-> Uniform(20, 40, RngSkip(s, DrawsBeforePaths + 2 + k)),
             collaborative    |-> Uniform(10, 30, RngSkip(s, DrawsBeforePaths + 3 + k))]],
     rng |-> RngSkip(s, DrawsBeforePaths + 4 + k)]

\* body of generate_individual_student_data
GenerateIndividualStudentData(student_name, s) ==
    IndividualRecord(student_name, s, RandInt(2, 4, RngSkip(s, DrawsBeforePaths)))

\* key under which st.cache_data stores the result of a call without arguments
NoArgs == "()"

\* a memo table that is never consulted
CacheMiss(cache, key) == FALSE

\* @st.cache_data: is there a stored result for these arguments
CacheHit(cache, key) == key \in DOMAIN cache

\* a call that was not memoized yet: its result g is stored and returned
StoreResult(cache, key, g) ==
    [val |-> g.val, cache |-> Record(cache, key, g.val), rng |-> g.rng]

\* generate_class_data() behind @st.cache_data
CachedClassData(cache, s) ==
    IF CacheHit(cache, NoArgs)
    THEN [val |-> cache[NoArgs], cache |-> cache, rng |-> s]
    ELSE StoreResult(cache, NoArgs, GenerateClassData(s))

\* generate_individual_student_data(student_name) behind @st.cache_data
CachedIndividualData(cache, student_name, s) ==
    IF CacheHit(cache, student_name)
    THEN [val |-> cache[student_name], cache |-> cache, rng |-> s]
    ELSE StoreResult(cache, student_name, GenerateIndividualStudentData(student_name, s))

-----------------------------------------------------------------------------
(* Student report view and class trends view.                              *)

\* index of the first greatest element: max(d, key=d.get) over the keys in order
ArgMax(xs) ==
    CHOOSE i \in DOMAIN xs :
        /\ \A j \in DOMAIN xs : xs[j] <= xs[i]
        /\ \A j \in 1..(i - 1) : xs[j] < xs[i]

\* index of the first least element: min(d, key=d.get) over the keys in order
ArgMin(xs) ==
    CHOOSE i \in DOMAIN xs :
        /\ \A j \in DOMAIN xs : xs[j] >= xs[i]
        /\ \A j \in 1..(i - 1) : xs[j] > xs[i]

NoReport ==
    [rendered |-> FALSE, student |-> "", student_names |-> <<>>,
     student_data |-> EmptyDict, objective_rows |-> <<>>, composition_rows |-> <<>>,
     timeline_rows |-> <<>>, insights |-> <<>>, completed |-> FALSE]

NoTrends == [rendered |-> FALSE, support_levels |-> <<>>, support_counts |-> <<>>]

\* the list `insights`: two of its four lines draw from the generator
Insights(data, s) ==
    [val |-> <<[kind |-> "Strength", value |-> objectives[ArgMax(data.objectives_progress)]],
               [kind |-> "Growth", value |-> RandInt(15, 35, s)],
               [kind |-> "Focus Area", value |-> objectives[ArgMin(data.objectives_progress)]],
               [kind |-> "Next Steps", value |-> Choice(data.exploration_tags, RngNext(s))]>>,
     rng |-> RngSkip(s, 2)]

\* student_names = [student['student_name'] for student in class_data]
StudentNames(class_data) ==
    [i \in DOMAIN class_data |-> class_data[i].student_name]

\* what the report view has shown when it ends: the three chart tables, and the
\* insights unless the view was aborted
ReportOutput(student, student_names, student_data, aborts, insights) ==
    [rendered |-> TRUE,
     student |-> student,
     student_names |-> student_names,
     student_data |-> student_data,
     objective_rows |->
         [i \in DOMAIN objectives |->
             [Objective |-> objectives[i],
              Mastery |-> student_data.objectives_progress[i]]],
     composition_rows |->
         <<[name |-> "Student Original", value |-> student_data.ai_breakdown.student_original],
           [name |-> "AI Scaffolding", value |-> student_data.ai_breakdown.ai_scaffolding],
           [name |-> "Collaborative", value |-> student_data.ai_breakdown.collaborative]>>,
     timeline_rows |-> student_data.writing_timeline,
     insights |-> IF aborts THEN <<>> ELSE insights,
     completed |-> ~aborts]

\* the view from the tags on: st.tag raises AttributeError on the first tag
\* when streamlit has no such function, which ends the pass; ins is the list
\* of insights and the generator state after it
ReportFromTags(student, c, d, aborts, ins) ==
    [class_cache |-> c.cache,
     individual_cache |-> d.cache,
     rng |-> IF aborts THEN d.rng ELSE ins.rng,
     aborted |-> aborts,
     out |-> ReportOutput(student, StudentNames(c.val.class_data), d.val, aborts, ins.val)]

\* the view once both generators have answered: c is the answer of
\* generate_class_data(), d that of generate_individual_student_data(student)
ReportFromData(student, tag_exists, c, d) ==
    ReportFromTags(student, c, d,
                   d.val.exploration_tags # <<>> /\ ~tag_exists,
                   Insights(d.val, d.rng))

\* the view once generate_class_data() has answered
ReportFromClass(student, tag_exists, c, icache) ==
    ReportFromData(student, tag_exists, c, CachedIndividualData(icache, student, c.rng))

\* show_student_report with the select box on `student`
ShowStudentReport(student, tag_exists, s, ccache, icache) ==
    ReportFromClass(student, tag_exists, CachedClassData(ccache, s), icache)

\* the bands with the limit 0.4 counted as low
SupportCountsLowInclusive(support_levels) ==
    <<Cardinality({i \in DOMAIN support_levels : support_levels[i] <= 40}),
      Cardinality({i \in DOMAIN support_levels :
                      40 < support_levels[i] /\ support_levels[i] < 60}),
      Cardinality({i \in DOMAIN support_levels : support_levels[i] >= 60})>>

\* support_counts for the three bands
SupportCounts(support_levels) ==
    <<Cardinality({i \in DOMAIN support_levels : support_levels[i] < 40}),
      Cardinality({i \in DOMAIN support_levels :
                      40 <= support_levels[i] /\ support_levels[i] < 60}),
      Cardinality({i \in DOMAIN support_levels : support_levels[i] >= 60})>>

\* support_levels = [student['ai_support_level'] for student in class_data]
SupportLevels(class_data) ==
    [i \in DOMAIN class_data |-> class_data[i].ai_support_level]

\* the trends view once generate_class_data() has answered
TrendsFromClass(c) ==
    [class_cache |-> c.cache,
     rng |-> c.rng,
     out |-> [rendered |-> TRUE,
              support_levels |-> SupportLevels(c.val.class_data),
              support_counts |-> SupportCounts(SupportLevels(c.val.class_data))]]

\* show_class_trends, as far as the support histogram
ShowClassTrends(s, ccache) == TrendsFromClass(CachedClassData(ccache, s))

\* main() from the third tab on: the report view, then, unless the pass was
\* aborted, the trends view and the footer
RenderReportAndTrends ==
    \E r \in {ShowStudentReport(report_student', has_tag, rng, class_cache, individual_cache)} :
    \E t \in {IF r.aborted THEN [class_cache |-> r.class_cache, rng |-> r.rng, out |-> NoTrends]
                ELSE ShowClassTrends(r.rng, r.class_cache)} :
       /\ individual_cache' = r.individual_cache
       /\ report' = r.out
       /\ rng' = t.rng
       /\ class_cache' = t.class_cache
       /\ trends' = t.out
       /\ views' = IF r.aborted
                   THEN <<"assignment_setup", "student_experience">>
                   ELSE <<"assignment_setup", "student_experience",
                          "student_report", "class_trends", "footer">>
       /\ UNCHANGED has_tag

-----------------------------------------------------------------------------
(* Initial state: the process has started (lines 16-24 have initialised    *)
(* st.session_state), no pass has rendered anything yet.                   *)

InitSession ==
    /\ assignment_created = FALSE
    /\ assignment_data = EmptyDict
    /\ student_dialogue_step = 0
    /\ student_responses = EmptyDict

InitRest ==
    /\ selected_student = PerspectiveStudents[1]
    /\ report_student = students[1]
    /\ class_cache = EmptyDict
    /\ individual_cache = EmptyDict
    /\ event = "start"
    /\ step_before = 0
    /\ branch = NoFeedback
    /\ indexed = <<>>
    /\ report = NoReport
    /\ trends = NoTrends
    /\ views = <<>>

Init ==
    /\ InitSession
    /\ InitRest
    /\ form = DefaultForm
    /\ has_tag \in BOOLEAN
    /\ rng \in 0..(MaxSeeds - 1)

-----------------------------------------------------------------------------
(* Passes.  Each action is one interaction and the script run it triggers. *)

\* the student experience view when none of its buttons is clicked
RenderDialogue ==
    /\ branch' = ShownAt(student_dialogue_step')
    /\ indexed' = IndexedAt(student_dialogue_step')

\* a pass without any interaction that the script reacts to (first load,
\* a radio button or another widget changing)
Rerender ==
    /\ event' = "render"
    /\ step_before' = student_dialogue_step
    /\ UNCHANGED <<sessionVars, form, selected_student, report_student>>
    /\ RenderDialogue
    /\ RenderReportAndTrends

\* the user types into the form; st.form sends nothing until it is submitted
EditForm(f) ==
    /\ form' = f
    /\ UNCHANGED <<sessionVars, selected_student, report_student, has_tag, rng,
                   class_cache, individual_cache, event, step_before, branch,
                   indexed, report, trends, views>>

\* "Create Assignment": `if submitted:` in show_assignment_setup
SubmitForm ==
    /\ event' = "create_assignment"
    /\ step_before' = student_dialogue_step
    /\ IF Accepts(form)
       THEN /\ assignment_data' = BuildAssignment(form)
            /\ assignment_created' = TRUE
       ELSE UNCHANGED <<assignment_data, assignment_created>>
    /\ UNCHANGED <<student_dialogue_step, student_responses, form,
                   selected_student, report_student>>
    /\ RenderDialogue
    /\ RenderReportAndTrends

\* the select box "Choose a student perspective:" is moved to another name
SelectStudent(name) ==
    /\ name # selected_student
    /\ event' = "select_student"
    /\ step_before' = student_dialogue_step
    /\ selected_student' = name
    /\ UNCHANGED <<sessionVars, form, report_student>>
    /\ RenderDialogue
    /\ RenderReportAndTrends

\* "Reset Conversation"; the pass goes on and renders step 0
ResetConversation ==
    /\ event' = "reset"
    /\ step_before' = student_dialogue_step
    /\ student_dialogue_step' = ResetStep
    /\ student_responses' = ResetResponses(student_responses)
    /\ UNCHANGED <<assignment_created, assignment_data, form, selected_student,
                   report_student>>
    /\ RenderDialogue
    /\ RenderReportAndTrends

\* a button of a step that ends in st.rerun(): the pass stops there and the
\* script runs again from the top, now without a click
AdvanceAndRerun(current_step, feedback) ==
    /\ student_dialogue_step' = NextStep(current_step)
    /\ branch' = feedback
    /\ indexed' = IndexedAt(current_step) \o IndexedAt(student_dialogue_step')
    /\ UNCHANGED <<assignment_created, assignment_data, form, selected_student,
                   report_student>>
    /\ RenderReportAndTrends

\* step 0, "Tell Professor Explorer"
TellProfessorExplorer(choice) ==
    LET current_step == student_dialogue_step IN
    /\ StepType(current_step) = "ai_intro"
    /\ choice \in Range(PyIndex(dialogue_steps, current_step).options)
    /\ event' = "tell_professor"
    /\ step_before' = student_dialogue_step
    /\ student_responses' = Record(student_responses, current_step, choice)
    /\ AdvanceAndRerun(current_step, NoFeedback)

\* step 1, "I'm ready to continue!"
ReadyToContinue ==
    LET current_step == student_dialogue_step IN
    /\ StepType(current_step) = "content_delivery"
    /\ event' = "ready_to_continue"
    /\ step_before' = student_dialogue_step
    /\ UNCHANGED student_responses
    /\ AdvanceAndRerun(current_step, NoFeedback)

\* step 2, "Submit Answer"
SubmitAnswer(answer) ==
    LET current_step == student_dialogue_step IN
    /\ StepType(current_step) = "comprehension_check"
    /\ answer \in Range(PyIndex(dialogue_steps, current_step).options)
    /\ event' = "submit_answer"
    /\ step_before' = student_dialogue_step
    /\ student_responses' = Record(student_responses, current_step, answer)
    /\ AdvanceAndRerun(current_step, ComprehensionFeedback(answer))

\* step 3, "Share with Professor Explorer"
ShareThoughts(student_input) ==
    LET current_step == student_dialogue_step IN
    /\ StepType(current_step) = "deeper_exploration"
    /\ event' = "share_thoughts"
    /\ step_before' = student_dialogue_step
    /\ student_responses' = Record(student_responses, current_step, student_input)
    /\ AdvanceAndRerun(current_step,
                       [kind |-> "echo", text |-> Prefix(student_input, EchoLimit)])

\* step 4, "Complete Learning Session": shows the teacher report; the step is
\* not changed, nothing is recorded and the pass is not restarted
CompleteLearningSession ==
    LET current_step == student_dialogue_step IN
    /\ StepType(current_step) = "reflection"
    /\ event' = "complete_session"
    /\ step_before' = student_dialogue_step
    /\ branch' = [kind |-> "teacher_report", text |-> <<>>]
    /\ indexed' = IndexedAt(current_step)
    /\ UNCHANGED <<sessionVars, form, selected_student, report_student>>
    /\ RenderReportAndTrends

\* the select box "Select a student:" of the report view is moved to another name
SelectReportStudent(name) ==
    /\ name # report_student
    /\ event' = "select_report_student"
    /\ step_before' = student_dialogue_step
    /\ report_student' = name
    /\ UNCHANGED <<sessionVars, form, selected_student>>
    /\ RenderDialogue
    /\ RenderReportAndTrends

-----------------------------------------------------------------------------
(* Specifications.  The assignment and dialogue state on one side and the  *)
(* generator, memo tables and report on the other never read each other,   *)
(* so each specification drives one side with the user's interactions and  *)
(* lets the other side be rendered by every pass.                          *)

\* the user works with the form and the dialogue
Next ==
    \/ Rerender
    \/ \E f \in SmallForms : EditForm(f)
    \/ SubmitForm
    \/ \E name \in Range(PerspectiveStudents) : SelectStudent(name)
    \/ ResetConversation
    \/ \E choice \in Range(dialogue_steps[1].options) : TellProfessorExplorer(choice)
    \/ ReadyToContinue
    \/ \E answer \in Range(dialogue_steps[3].options) : SubmitAnswer(answer)
    \/ \E student_input \in FreeTexts : ShareThoughts(student_input)
    \/ CompleteLearningSession

Spec == Init /\ [][Next]_vars

\* the form contents are arbitrary and get submitted
InitForm ==
    /\ InitSession
    /\ InitRest
    /\ form \in FormInputs
    /\ has_tag = FALSE
    /\ rng = 0

NextForm == SubmitForm

SpecForm == InitForm /\ [][NextForm]_vars

\* the user looks at the reports
ReportStudents == {students[i] : i \in 1..MaxReportStudents}

NextReport ==
    \/ Rerender
    \/ \E name \in ReportStudents : SelectReportStudent(name)

SpecReport == Init /\ [][NextReport]_vars

\* the teacher looks at the trends of a class whose AI support levels were
\* drawn anywhere in the range of random.uniform(0.2, 0.8), the band limits
\* included; the first MaxVaried students of the roster carry these levels
SupportLevelInputs == {20, 39, 40, 41, 59, 60, 79}

\* the answer of generate_class_data() from the first generator state
GeneratedClass == GenerateClassData(0)

\* class_data with the levels of the first students replaced
ClassDataWith(levels) ==
    [i \in DOMAIN GeneratedClass.val.class_data |->
        IF i <= Len(levels)
        THEN [GeneratedClass.val.class_data[i] EXCEPT !.ai_support_level = levels[i]]
        ELSE GeneratedClass.val.class_data[i]]

\* generate_class_data() has answered and is memoized; nothing is shown yet
InitTrends ==
    /\ InitSession
    /\ form = DefaultForm
    /\ selected_student = PerspectiveStudents[1]
    /\ report_student = students[1]
    /\ \E levels \in [1..MaxVaried -> SupportLevelInputs] :
          class_cache = Record(EmptyDict, NoArgs,
                               [class_data |-> ClassDataWith(levels),
                                objectives |-> objectives])
    /\ individual_cache = EmptyDict
    /\ rng = GeneratedClass.rng
    /\ has_tag = TRUE
    /\ event = "start"
    /\ step_before = 0
    /\ branch = NoFeedback
    /\ indexed = <<>>
    /\ report = NoReport
    /\ trends = NoTrends
    /\ views = <<>>

\* every pass shows the trends view
NextTrends == Rerender

SpecTrends == InitTrends /\ [][NextTrends]_vars

-----------------------------------------------------------------------------
(* Properties of the dialogue and the assignment (specification Spec).     *)

\* C1: when the cursor is at step 4 and the user performs "Complete Learning
\* Session", the cursor advances to DONE = len(dialogue_steps) = 5.
C1_CompleteAdvancesToDone ==
    event = "complete_session" => student_dialogue_step = Len(dialogue_steps)

\* C2: over any sequence of user actions the cursor never decreases except on
\* the reset action, and every reset leaves the cursor at 0 and the response
\* map empty.
C2_MonotoneExceptReset ==
    /\ [][student_dialogue_step' < student_dialogue_step => event' = "reset"]_vars
    /\ [](event = "reset" =>
             student_dialogue_step = 0 /\ student_responses = EmptyDict)

\* C2 witness: a reset has been performed from step 4 with responses recorded
\* before it; the cursor is 0 and the map is empty.
C2_Witness ==
    /\ event = "reset"
    /\ step_before = 4
    /\ student_dialogue_step = 0
    /\ student_responses = EmptyDict

\* C3: in every reachable state the cursor is an integer in [0, 5], and the
\* catalog is indexed only with a cursor value strictly less than 5.
C3_CursorInRange ==
    /\ student_dialogue_step \in 0..Len(dialogue_steps)
    /\ \A i \in Range(indexed) : i \in 0..(Len(dialogue_steps) - 1)
    /\ student_dialogue_step >= Len(dialogue_steps) => indexed = <<>>

\* C3 witness: the cursor has been advanced from step 3 to step 4 and the
\* catalog was indexed at both.
C3_Witness ==
    /\ student_dialogue_step = 4
    /\ event = "share_thoughts"
    /\ indexed = <<3, 4>>

\* the text contains the phrase as a contiguous run of characters, case and all
C5_HasPhrase(text, phrase) ==
    \E i \in 1..Len(text) : \E j \in i..Len(text) :
        /\ j - i + 1 = Len(phrase)
        /\ \A k \in 1..Len(phrase) : text[i + k - 1] = phrase[k]

\* C5: at step 2, submitting an option takes the success branch if and only if
\* its text contains "fragile and interconnected" (of the four options, only
\* the second), otherwise the corrective-hint branch; in both branches the
\* option is recorded as the response of step 2 and the cursor becomes 3.
C5_ComprehensionBranch ==
    (event = "submit_answer" /\ step_before = 2) =>
        /\ student_dialogue_step = 3
        /\ 2 \in DOMAIN student_responses
        /\ student_responses[2] \in {CheckOption1, CheckOption2, CheckOption3, CheckOption4}
        /\ branch.kind \in {"success", "hint"}
        /\ branch.kind = "success" <=> C5_HasPhrase(student_responses[2], SuccessPhrase)
        /\ branch.kind = "success" <=> student_responses[2] = CheckOption2

\* C5 witness: "The economic system was fragile and interconnected" has been
\* submitted at step 2.
C5_Witness ==
    /\ event = "submit_answer"
    /\ step_before = 2
    /\ student_responses[2] = CheckOption2
    /\ branch.kind = "success"
    /\ student_dialogue_step = 3

\* C6: once a response has been recorded for a step index, no later action
\* other than reset changes or removes that entry of the response map.
C6_ResponsesWrittenOnce ==
    [][\/ event' = "reset" /\ student_responses' = EmptyDict
       \/ \A k \in DOMAIN student_responses :
              /\ k \in DOMAIN student_responses'
              /\ student_responses'[k] = student_responses[k]]_vars

\* C6 witness: all three responses are recorded and a later action (the
\* completion at step 4) has been performed on top of them.
C6_Witness ==
    /\ event = "complete_session"
    /\ DOMAIN student_responses = {0, 2, 3}
    /\ student_responses[0] = IntroOption3
    /\ student_responses[2] = CheckOption4

\* C8: once an assignment has been created, the record and the flag are
\* changed only by another form submission, which replaces the whole record;
\* no dialogue action, reset included, deletes the record, clears the flag or
\* alters a field; every submission is accepted whatever the field values.
C8_AssignmentFrame ==
    /\ [][\/ /\ event' = "create_assignment"
             /\ assignment_created'
             /\ assignment_data' = BuildAssignment(form)
          \/ UNCHANGED <<assignment_data, assignment_created>>]_vars
    /\ [][assignment_created => assignment_created']_vars
    /\ [](event = "create_assignment" =>
             assignment_created /\ assignment_data.title \in {f.title : f \in SmallForms})
    /\ [](assignment_created <=> assignment_data # EmptyDict)

\* C8 witness: an assignment with an empty title was created, and a reset from
\* a later step has left it in place.
C8_Witness ==
    /\ assignment_created
    /\ assignment_data.title = ""
    /\ assignment_data = BuildAssignment(DefaultForm)
    /\ event = "reset"
    /\ step_before = 3

-----------------------------------------------------------------------------
(* Properties of the assignment builder (specification SpecForm).          *)

C9_Blank(c) == c \in {" ", "\n", "\t", "\r"}

\* the trimmed non-blank lines of a text, as pairs <<first, last>> of positions:
\* first and last are not blank, no newline lies between them, and only blanks
\* lie between them and the newlines (or text ends) around them
C9_Lines(text) ==
    {pos \in (1..Len(text)) \X (1..Len(text)) :
        /\ pos[1] <= pos[2]
        /\ ~C9_Blank(text[pos[1]]) /\ ~C9_Blank(text[pos[2]])
        /\ \A k \in pos[1]..pos[2] : text[k] # "\n"
        /\ \E i \in 1..pos[1] :
              /\ i = 1 \/ text[i - 1] = "\n"
              /\ \A k \in i..(pos[1] - 1) : C9_Blank(text[k]) /\ text[k] # "\n"
        /\ \E j \in pos[2]..Len(text) :
              /\ j = Len(text) \/ text[j + 1] = "\n"
              /\ \A k \in (pos[2] + 1)..j : C9_Blank(text[k]) /\ text[k] # "\n"}

\* the list xs consists of the lines of the text, in the order of the text
C9_IsLinesOf(xs, text) ==
    /\ Len(xs) = Cardinality(C9_Lines(text))
    /\ \A pos \in C9_Lines(text) :
          xs[1 + Cardinality({q \in C9_Lines(text) : q[1] < pos[1]})]
              = [k \in 1..(pos[2] - pos[1] + 1) |-> text[pos[1] + k - 1]]

\* C9: on submission the objective list is the preset-selected objectives in
\* their order followed by the custom text split on newline, each line trimmed
\* and blank lines dropped, in input order; "A\n\nB\n" yields a list ending in
\* "A", "B", and an empty or whitespace-only custom text adds nothing.
C9_ObjectiveList ==
    assignment_created =>
        LET objs == assignment_data.objectives
            n    == Len(form.preset_objectives)
        IN /\ Len(objs) >= n
           /\ [i \in 1..n |-> objs[i]] = form.preset_objectives
           /\ C9_IsLinesOf([i \in 1..(Len(objs) - n) |-> objs[n + i]],
                           form.custom_objectives)
           /\ form.custom_objectives = ExampleCustomText =>
                  /\ Len(objs) = n + 2
                  /\ objs[n + 1] = <<"A">> /\ objs[n + 2] = <<"B">>
           /\ (\A k \in DOMAIN form.custom_objectives :
                   C9_Blank(form.custom_objectives[k])) =>
                  objs = form.preset_objectives

\* C9 witness: a form with two presets and the custom text "A\n\nB\n" has been
\* submitted and the list is the two presets followed by "A", "B".
C9_Witness ==
    /\ assignment_created
    /\ form.custom_objectives = ExampleCustomText
    /\ form.preset_objectives = <<Preset3, Preset1>>
    /\ assignment_data.objectives = <<Preset3, Preset1, <<"A">>, <<"B">>>>

\* the segments joined by newlines
RECURSIVE C10_Join(_)
C10_Join(xs) ==
    IF xs = <<>> THEN <<>>
    ELSE IF Len(xs) = 1 THEN xs[1]
    ELSE xs[1] \o <<"\n">> \o C10_Join(Tail(xs))

\* xs is the list of the newline-separated segments of a non-empty text, in
\* order; it is the empty list for the empty text
C10_IsSegmentsOf(xs, text) ==
    IF text = <<>> THEN xs = <<>>
    ELSE /\ xs # <<>>
         /\ \A i \in DOMAIN xs : \A k \in DOMAIN xs[i] : xs[i][k] # "\n"
         /\ C10_Join(xs) = text

\* C10: for both resource texts, an empty string yields the empty list and a
\* non-empty text the list of its newline-separated segments in order;
\* "x\ny" yields ["x", "y"].
C10_ResourceLists ==
    assignment_created =>
        /\ C10_IsSegmentsOf(assignment_data.required_resources, form.required_resources)
        /\ C10_IsSegmentsOf(assignment_data.optional_resources, form.optional_resources)
        /\ form.required_resources = ExampleResourceText =>
               assignment_data.required_resources = <<<<"x">>, <<"y">>>>
        /\ form.optional_resources = ExampleResourceText =>
               assignment_data.optional_resources = <<<<"x">>, <<"y">>>>

\* C10 witness: "x\ny" was submitted as required and "" as optional resources.
C10_Witness ==
    /\ assignment_created
    /\ form.required_resources = ExampleResourceText
    /\ form.optional_resources = <<>>
    /\ assignment_data.required_resources = <<<<"x">>, <<"y">>>>
    /\ assignment_data.optional_resources = <<>>

-----------------------------------------------------------------------------
(* Properties of the generators and the report (specification SpecReport). *)

C7_Kept(cache, cache_after) ==
    \A k \in DOMAIN cache : k \in DOMAIN cache_after /\ cache_after[k] = cache[k]

\* C7: generation is memoized per distinct input: every call of
\* generate_individual_student_data(name) after the first returns the record
\* of the first call without a new random draw, likewise generate_class_data;
\* so repeated renders, and both the report and the trends view, see the same
\* records.
C7_Memoized ==
    /\ [][/\ C7_Kept(individual_cache, individual_cache')
          /\ C7_Kept(class_cache, class_cache')
          /\ (NoArgs \in DOMAIN class_cache /\ report_student' \in DOMAIN individual_cache)
                => rng' = (IF report'.completed THEN RngSkip(rng, 2) ELSE rng)]_vars
    /\ [](report.rendered =>
             /\ report.student \in DOMAIN individual_cache
             /\ report.student_data = individual_cache[report.student]
             /\ NoArgs \in DOMAIN class_cache
             /\ report.student_names =
                    [i \in DOMAIN students |->
                        class_cache[NoArgs].class_data[i].student_name])
    /\ [](trends.rendered =>
             trends.support_levels =
                 [i \in DOMAIN students |->
                     class_cache[NoArgs].class_data[i].ai_support_level])

\* C7 witness: the report select box is back on the first student after the
\* second one was shown, so the first student's record was asked for again.
C7_Witness ==
    /\ event = "select_report_student"
    /\ report.student = students[1]
    /\ DOMAIN individual_cache = {students[1], students[2]}
    /\ report.student_data = individual_cache[students[1]]
    /\ trends.rendered

-----------------------------------------------------------------------------
(* Properties of the support histogram (specification SpecTrends).         *)

\* the band of a support level: 1 below 0.4, 2 from 0.4 to below 0.6, 3 from 0.6
C11_Band(x) == IF x < 40 THEN 1 ELSE IF x < 60 THEN 2 ELSE 3

\* C11: the AI-support bucketing puts every student of the roster into exactly
\* one of the three bands (<0.4, [0.4,0.6), >=0.6), so the three counts sum to
\* the roster size; 0.4 counts as medium and 0.6 as high; the support levels
\* [0.3, 0.5, 0.7] give the counts [1,1,1].
C11_SupportBuckets ==
    /\ trends.rendered =>
          /\ Len(trends.support_levels) = Len(students)
          /\ Len(trends.support_counts) = 3
          /\ \A b \in 1..3 :
                trends.support_counts[b] =
                    Cardinality({i \in DOMAIN trends.support_levels :
                                    C11_Band(trends.support_levels[i]) = b})
          /\ trends.support_counts[1] + trends.support_counts[2]
                + trends.support_counts[3] = Len(trends.support_levels)
    /\ SupportCounts(<<30, 50, 70>>) = <<1, 1, 1>>
    /\ SupportCounts(<<40>>) = <<0, 1, 0>>
    /\ SupportCounts(<<60>>) = <<0, 0, 1>>

\* C11 witness: the trends view has shown a roster whose first three students
\* have the support levels 0.4, 0.6 and 0.39.
C11_Witness ==
    /\ trends.rendered
    /\ event = "render"
    /\ trends.support_levels[1] = 40
    /\ trends.support_levels[2] = 60
    /\ trends.support_levels[3] = 39
    /\ trends.support_counts[1] + trends.support_counts[2]
          + trends.support_counts[3] = Len(students)

-----------------------------------------------------------------------------
(* Properties of the generated records (specification SpecReport).         *)

\* every element of the list lies in the closed range from lo to hi
C12_AllWithin(xs, lo, hi) == \A i \in DOMAIN xs : lo <= xs[i] /\ xs[i] <= hi

\* a record of class_data keeps its documented bounds
C12_ClassRecordBounded(rec) ==
    /\ Len(rec.objectives_mastered) = Len(objectives)
    /\ C12_AllWithin(rec.objectives_mastered, 0, 100)
    /\ C12_AllWithin(rec.objectives_mastered, 60, 100)
    /\ 0 <= rec.ai_support_level /\ rec.ai_support_level <= 100
    /\ Len(rec.writing_scores) = 6
    /\ C12_AllWithin(rec.writing_scores, 600, 1000)

\* a record of generate_individual_student_data keeps its documented bounds
C12_IndividualRecordBounded(rec) ==
    /\ Len(rec.objectives_progress) = Len(objectives)
    /\ C12_AllWithin(rec.objectives_progress, 0, 100)
    /\ C12_AllWithin(rec.objectives_progress, 70, 100)
    /\ \A f \in {"student_original", "ai_scaffolding", "collaborative"} :
          0 <= rec.ai_breakdown[f] /\ rec.ai_breakdown[f] <= 100
    /\ Len(rec.writing_timeline) = 6
    /\ \A i \in 1..6 :
          /\ rec.writing_timeline[i].week = <<"Week", i>>
          /\ 600 <= rec.writing_timeline[i].score
          /\ rec.writing_timeline[i].score <= 1000

\* C12: for every Student Record produced by generate_class_data and
\* generate_individual_student_data, whatever the random draws, every objective
\* mastery fraction lies in [0,1], the AI-support fraction lies in [0,1], every
\* writing score lies in [6,10], there are exactly 6 writing scores (labelled
\* "Week 1".."Week 6" in order for the individual record), and the mastery
\* range of the individual record lies inside that of the class record.
C12_GeneratedWithinBounds ==
    /\ \A k \in DOMAIN class_cache :
          /\ Len(class_cache[k].class_data) = Len(students)
          /\ \A i \in DOMAIN class_cache[k].class_data :
                C12_ClassRecordBounded(class_cache[k].class_data[i])
    /\ \A name \in DOMAIN individual_cache :
          C12_IndividualRecordBounded(individual_cache[name])
    /\ report.rendered => C12_IndividualRecordBounded(report.student_data)

\* C12 witness: the class data and the records of two students have been
\* generated, and draws from both ends of the generator's range went into them.
C12_Witness ==
    /\ NoArgs \in DOMAIN class_cache
    /\ students[1] \in DOMAIN individual_cache
    /\ students[2] \in DOMAIN individual_cache
    /\ individual_cache[students[2]].writing_timeline[6].week = <<"Week", 6>>
    /\ \E i \in DOMAIN students :
          \E j \in DOMAIN objectives :
             class_cache[NoArgs].class_data[i].objectives_mastered[j] = 60
    /\ \E i \in DOMAIN students :
          \E j \in DOMAIN objectives :
             class_cache[NoArgs].class_data[i].objectives_mastered[j] > 90

-----------------------------------------------------------------------------
(* Properties of the response map (specification Spec).                    *)

\* the step indices whose handler records a response
C13_RecordingSteps == {0, 2, 3}

\* C13: in every reachable state the response map has an entry for step index
\* k exactly when k is one of the recording steps {0, 2, 3} and k is strictly
\* less than the cursor; acknowledging step 1 and completing step 4 leave the
\* response map unchanged, and the map never has a key 1 or 4.
C13_ResponseKeys ==
    /\ [](DOMAIN student_responses =
             {k \in C13_RecordingSteps : k < student_dialogue_step})
    /\ [](1 \notin DOMAIN student_responses /\ 4 \notin DOMAIN student_responses)
    /\ [][event' \in {"ready_to_continue", "complete_session"}
             => student_responses' = student_responses]_vars

\* C13 witness: step 1 has been acknowledged with the response of step 0
\* recorded; the cursor is 2 and the map still has the key 0 only.
C13_Witness ==
    /\ event = "ready_to_continue"
    /\ step_before = 1
    /\ student_dialogue_step = 2
    /\ DOMAIN student_responses = {0}
    /\ student_responses[0] = IntroOption2

-----------------------------------------------------------------------------
(* Properties of the pass as a whole (specification Spec).                 *)

\* C14: every render pass of the top-level dispatcher that is not restarted by
\* a dialogue advance runs the four views in order (assignment setup, dialogue
\* runner, individual report, class trends) to completion: the individual
\* report view never aborts the pass, so the class trends view and the footer
\* are rendered on every such pass.
C14_PassRunsAllViews ==
    event # "start" =>
        /\ views = <<"assignment_setup", "student_experience",
                     "student_report", "class_trends", "footer">>
        /\ report.completed
        /\ trends.rendered

=============================================================================
